---- MODULE Spec2Model ----
(***************************************************************************)
(* A model of yoto-uploader: the file selector (files.py), the processing  *)
(* monitor / playlist matcher (wait_and_create), the icon randomizer       *)
(* (randomize_icons) and the run workflow (run_playwright, run_upload_mode,*)
(* run_icon_mode).  The repository holds two variants of the workflow: the *)
(* package src/yoto_uploader/workflow.py ("package") and the stand-alone   *)
(* script src/yoto_uploader.py ("legacy"); the variable `variant` says     *)
(* which one is running.                                                   *)
(***************************************************************************)
EXTENDS Integers, Sequences, FiniteSets, TLC

(***************************************************************************)
(* Bounds of the model.                                                    *)
(***************************************************************************)
MaxEntries == 3
MaxChunk == 3

(***************************************************************************)
(* Characters and strings.  A Python str is a sequence of one-character    *)
(* strings; CharOrder lists the characters in code-point order.            *)
(***************************************************************************)
CharOrder ==
    << " ", "'", ".", "3", "4", "A", "B", "M", "P", "W", "X",
       "a", "b", "c", "d", "e", "m", "p", "t", "v", "w", "x", "z" >>

Ord(c) == CHOOSE i \in 1..Len(CharOrder) : CharOrder[i] = c

\* str.lower() on one character
LowerChar(c) ==
    CASE c = "A" -> "a"
      [] c = "B" -> "b"
      [] c = "M" -> "m"
      [] c = "P" -> "p"
      [] c = "W" -> "w"
      [] c = "X" -> "x"
      [] OTHER -> c

\* str.lower()
Lower(s) == [i \in 1..Len(s) |-> LowerChar(s[i])]

\* Python's str comparison a < b: lexicographic by code point
StrLess(a, b) ==
    \E k \in 1..(Len(b)) :
        /\ \A j \in 1..(k - 1) : j <= Len(a) /\ a[j] = b[j]
        /\ Len(a) >= k - 1
        /\ \/ Len(a) = k - 1
           \/ Len(a) >= k /\ Ord(a[k]) < Ord(b[k])

Min(a, b) == IF a < b THEN a ELSE b

\* Python slice data[i:j] for 0 <= i <= j (0-based, end exclusive, clipped)
Slice(data, i, j) == SubSeq(data, i + 1, Min(j, Len(data)))

Range(s) == {s[i] : i \in 1..Len(s)}

(***************************************************************************)
(* files.py                                                                *)
(***************************************************************************)
VALID_EXTENSIONS ==
    { <<".", "m", "p", "3">>, <<".", "m", "4", "a">>,
      <<".", "w", "a", "v">>, <<".", "m", "4", "b">> }

\* pathlib's Path.suffix: the final component from its last dot on, unless
\* that dot is the first or the last character of the name
Suffix(name) ==
    LET dots == {i \in 1..Len(name) : name[i] = "."}
    IN  IF dots = {} THEN << >>
        ELSE LET i == CHOOSE d \in dots : \A e \in dots : e <= d
             IN  IF 1 < i /\ i < Len(name) THEN SubSeq(name, i, Len(name))
                 ELSE << >>

\* the filter of the list comprehension (files.py line 27)
IsValidAudioCaseSensitive(f) == f.is_file /\ Suffix(f.name) \in VALID_EXTENSIONS
IsValidAudio(f) == f.is_file /\ Lower(Suffix(f.name)) \in VALID_EXTENSIONS

\* list.sort(key=lambda x: x.name): a stable insertion of each element
RECURSIVE InsertByName(_, _)
InsertByName(sorted, f) ==
    IF sorted = << >> THEN << f >>
    ELSE IF StrLess(f.name, Head(sorted).name) THEN << f >> \o sorted
    ELSE << Head(sorted) >> \o InsertByName(Tail(sorted), f)

RECURSIVE SortByName(_)
SortByName(files) ==
    IF files = << >> THEN << >>
    ELSE InsertByName(SortByName(SubSeq(files, 1, Len(files) - 1)),
                      files[Len(files)])

\* get_valid_audio_files on an existing folder whose iterdir() yields `listing`
GetValidAudioFiles(listing) == SortByName(SelectSeq(listing, IsValidAudio))

\* chunk_list: data[i : i + size] for i in range(0, len(data), size)
ChunkListOverlapping(data, size) ==
    LET starts == {i \in 0..(Len(data) - 1) : i % size = 0}
    IN  [k \in 1..Cardinality(starts) |->
            Slice(data, (k - 1) * size, (k - 1) * size + size + 1)]
ChunkList(data, size) ==
    LET starts == {i \in 0..(Len(data) - 1) : i % size = 0}
    IN  [k \in 1..Cardinality(starts) |->
            Slice(data, (k - 1) * size, (k - 1) * size + size)]

(***************************************************************************)
(* Directory entries the runs are given.                                   *)
(***************************************************************************)
File(n) == [name |-> n, is_file |-> TRUE]
Dir(n) == [name |-> n, is_file |-> FALSE]

EntryPool ==
    { File(<<"b", ".", "m", "p", "3">>),
      File(<<"A", ".", "M", "P", "3">>),
      File(<<"a", ".", "m", "4", "a">>),
      File(<<"c", ".", "W", "a", "v">>),
      File(<<"d", ".", "m", "4", "b">>),
      File(<<"a", ".", "b", ".", "m", "p", "3">>),
      File(<<"e", ".", "t", "x", "t">>),
      File(<<".", "m", "p", "3">>),
      File(<<"m", "p", "3">>),
      File(<<"a", ".", "m", "p", "4">>),
      Dir(<<"z", ".", "m", "p", "3">>) }

\* the listings iterdir() can yield: no name twice, any order
Listings(n) ==
    UNION { { s \in [1..k -> EntryPool] :
                \A i, j \in 1..k : i # j => s[i].name # s[j].name }
            : k \in 0..n }

\* a folder of seven valid files among other entries, in no particular order
SevenFiles ==
    << File(<<"d", ".", "m", "4", "b">>),
       File(<<"e", ".", "t", "x", "t">>),
       File(<<"b", ".", "m", "p", "3">>),
       File(<<"B", ".", "m", "p", "3">>),
       File(<<"a", ".", "m", "4", "a">>),
       Dir(<<"z", ".", "m", "p", "3">>),
       File(<<"c", ".", "W", "a", "v">>),
       File(<<"A", ".", "M", "P", "3">>),
       File(<<"a", ".", "b", ".", "m", "p", "3">>) >>

(***************************************************************************)
(* workflow.py: wait_and_create; yoto_uploader.py: wait_for_processing     *)
(***************************************************************************)
MaxTimeout == 5
MaxDelay == 1
MaxCards == 2

\* time.sleep(2) of the package, time.sleep(5) of the legacy script
PollPackage == 2
PollLegacy == 5
Poll(v) == IF v = "package" THEN PollPackage ELSE PollLegacy

\* str.strip() (the only whitespace of the model is the space)
Strip(s) ==
    LET keep == {i \in 1..Len(s) : s[i] # " "}
    IN  IF keep = {} THEN << >>
        ELSE SubSeq(s, CHOOSE i \in keep : \A j \in keep : i <= j,
                       CHOOSE i \in keep : \A j \in keep : j <= i)

\* the JSON records of the content listing: "title" and "cardId"; a title
\* of << >> is an empty or missing title (c.get("title", "") gives ""), a
\* cardId of "" an empty or missing one (None or "": falsy)
Titles == { << >>, <<"X">>, <<" ", "X", " ">>, <<"x">> }
CardIds == { "", "123", "456" }
Cards == [title : Titles, cardId : CardIds]
CardLists(n) == UNION { [1..k -> Cards] : k \in 0..n }

\* response.json(): a bare list, or an object with or without "cards"
Bodies(n) ==
    { [kind |-> "list", has_cards |-> FALSE, cards |-> c] : c \in CardLists(n) }
    \cup { [kind |-> "object", has_cards |-> TRUE, cards |-> c] : c \in CardLists(n) }
    \cup { [kind |-> "object", has_cards |-> FALSE, cards |-> << >>] }

NoResponse == [ok |-> FALSE, body |-> [kind |-> "none", has_cards |-> FALSE, cards |-> << >>]]
Responses(n) ==
    { [ok |-> TRUE, body |-> b] : b \in Bodies(n) }
    \cup { [ok |-> FALSE, body |-> [kind |-> "object", has_cards |-> FALSE, cards |-> << >>]] }

\* cards = data if isinstance(data, list) else data.get("cards", [])
CardsOfListOnly(data) == IF data.kind = "list" THEN data.cards ELSE << >>
CardsOf(data) ==
    IF data.kind = "list" THEN data.cards
    ELSE IF data.has_cards THEN data.cards ELSE << >>

\* the test of the generator expression (workflow.py line 78)
TitleMatchesIgnoringCase(c, playlist_name) ==
    Lower(Strip(c.title)) = Lower(Strip(playlist_name))
TitleMatches(c, playlist_name) == Strip(c.title) = Strip(playlist_name)

\* next((c for c in cards if ...), None): the index of the first match, 0 for None
TargetCard(cards, playlist_name) ==
    LET hits == {i \in 1..Len(cards) : TitleMatches(cards[i], playlist_name)}
    IN  IF hits = {} THEN 0 ELSE CHOOSE i \in hits : \A j \in hits : i <= j

EditUrl(card_id) == << "https://my.yotoplay.com/card/", card_id, "/edit" >>
LibraryUrl == << "https://my.yotoplay.com/my-cards" >>
NoUrl == << >>

\* lines 72-90 of workflow.py: the URL returned and whether the warning is printed
MatchResult(data, playlist_name) ==
    LET cards == CardsOf(data)
        t == TargetCard(cards, playlist_name)
    IN  IF t # 0 /\ cards[t].cardId # ""
        THEN [url |-> EditUrl(cards[t].cardId), warned |-> FALSE]
        ELSE [url |-> LibraryUrl, warned |-> TRUE]

\* the playlist names wait_and_create is called with
PlaylistNames == { <<"X">>, <<" ", "X">>, <<"x">> }

VARIABLES
    entry,          \* which entry point the run started from
    pc,             \* position of the single thread of control
    variant,        \* "package" (workflow.py) or "legacy" (yoto_uploader.py)
    exc,            \* the exception being raised, "none" if none
    trace,          \* the page and console actions performed so far, in order
    folder_exists,  \* Path(folder_path).exists()
    listing,        \* what path.iterdir() yields
    chunk_size,     \* the chunk size given to chunk_list
    audio_files,    \* result of get_valid_audio_files
    chunks,         \* list(chunk_list(audio_files, chunk_size))
    playlist_name,  \* the intended playlist name
    timeout,        \* the timeout parameter of the monitor
    elapsed,        \* time.time() - start_time
    ticks,          \* what page.is_enabled reported on each poll tick, and when
    mon,            \* the monitor's state: WAITING, DONE or TIMED_OUT
    status_text,    \* the description shown by the progress display
    response,       \* the intercepted **/content/mine response
    created_url,    \* the value wait_and_create returned
    warned,         \* whether the "Could not find card" warning was printed
    count,          \* icon_locator.count(), read once before the loop
    icon_i,         \* the loop index i of randomize_icons
    used_icon_srcs, \* the set of identifiers recorded as used
    available,      \* the src of each icon the open dialog exposes
    chosen,         \* the position in `available` of the icon chosen, 0 if none
    valid_opts,     \* the positions in `available` the choice is drawn from
    recycled,       \* whether this pass cleared used_icon_srcs
    since_reset,    \* the src chosen for each track since used_icon_srcs was last empty
    assigned,       \* per track, the src of the icon clicked for it, or "unset"
    dialog,         \* whether the icon dialog is visible
    on_editor,      \* whether page.url contains "/edit"
    matching,       \* how many elements match the icon-trigger selector now
    headless,       \* the headless flag the browser is launched with
    mode,           \* "upload" (no target_url) or "icons" (a target_url)
    browser,        \* "none", "open" after launch, "closed" after browser.close()
    folder_input,   \* the folder path after strip() and the removal of quotes
    chunk_index,    \* the 1-based index of the batch of the upload loop
    upload_via,     \* how the batch in hand was assigned: "none", "direct", "chooser"
    attempts,       \* the assignments the upload_chunk call in hand tried, in order
    opt_playlist,   \* the value of --playlist ("" when omitted)
    opt_folder,     \* the value of --folder ("" when omitted)
    uploaded,       \* the file lists upload_chunk was called with, in order
    env_email,      \* os.getenv("YOTO_EMAIL")
    env_password,   \* os.getenv("YOTO_PASSWORD")
    email,          \* the local `email` of get_credentials
    password,       \* the local `password` of get_credentials
    answers,        \* what was typed at the credential prompts, in order
    credentials     \* the tuple get_credentials returned, << >> before it returns

filesVars == << folder_exists, listing, chunk_size, audio_files, chunks >>
monVars == << playlist_name, timeout, elapsed, ticks, mon, status_text,
              response, created_url, warned >>
iconVars == << count, icon_i, used_icon_srcs, available, chosen, valid_opts,
               recycled, since_reset, assigned, dialog, on_editor, matching >>
runVars == << headless, mode, browser, folder_input, chunk_index, upload_via,
              attempts, opt_playlist, opt_folder, uploaded >>
credVars == << env_email, env_password, email, password, answers, credentials >>
vars == << entry, pc, variant, exc, trace, filesVars, monVars, iconVars, runVars,
           credVars >>

Event(e, k) == [ev |-> e, k |-> k]
Log(e) == trace' = Append(trace, Event(e, 0))

FilesIdle ==
    /\ folder_exists = FALSE
    /\ listing = << >>
    /\ chunk_size = 1
    /\ audio_files = << >>
    /\ chunks = << >>

MonIdle ==
    /\ playlist_name = << >>
    /\ timeout = 0
    /\ elapsed = 0
    /\ ticks = << >>
    /\ mon = "WAITING"
    /\ status_text = "Processing tracks..."
    /\ response = NoResponse
    /\ created_url = NoUrl
    /\ warned = FALSE

IconIdle ==
    /\ count = 0
    /\ icon_i = 0
    /\ used_icon_srcs = {}
    /\ available = << >>
    /\ chosen = 0
    /\ valid_opts = {}
    /\ recycled = FALSE
    /\ since_reset = << >>
    /\ assigned = << >>
    /\ dialog = FALSE
    /\ on_editor = TRUE
    /\ matching = 0

RunIdle ==
    /\ headless = TRUE
    /\ mode = "upload"
    /\ browser = "none"
    /\ folder_input = << >>
    /\ chunk_index = 0
    /\ upload_via = "none"
    /\ attempts = << >>
    /\ opt_playlist = << >>
    /\ opt_folder = << >>
    /\ uploaded = << >>

\* Python's None: what os.getenv gives for a variable that is not set
None == "<None>"

CredIdle ==
    /\ env_email = None
    /\ env_password = None
    /\ email = None
    /\ password = None
    /\ answers = << >>
    /\ credentials = << >>

(***************************************************************************)
(* The file selector on its own: get_valid_audio_files, then chunk_list.   *)
(***************************************************************************)
InitFiles ==
    /\ entry = "files"
    /\ pc = "get_valid_audio_files"
    /\ variant = "package"
    /\ exc = "none"
    /\ trace = << >>
    /\ folder_exists \in BOOLEAN
    /\ listing \in Listings(MaxEntries) \cup {SevenFiles}
    /\ ~folder_exists => listing = << >>
    /\ chunk_size \in 1..MaxChunk
    /\ audio_files = << >>
    /\ chunks = << >>
    /\ MonIdle
    /\ IconIdle
    /\ RunIdle
    /\ CredIdle

\* get_valid_audio_files raises FileNotFoundError
FilesNotFound ==
    /\ entry = "files"
    /\ pc = "get_valid_audio_files"
    /\ ~folder_exists
    /\ exc' = "FileNotFoundError"
    /\ pc' = "done"
    /\ UNCHANGED << credVars, entry, variant, trace, filesVars, monVars, iconVars, runVars >>

\* get_valid_audio_files returns the sorted list
FilesScan ==
    /\ entry = "files"
    /\ pc = "get_valid_audio_files"
    /\ folder_exists
    /\ audio_files' = GetValidAudioFiles(listing)
    /\ pc' = "chunk_list"
    /\ UNCHANGED << credVars, entry, variant, exc, trace, folder_exists, listing,
                    chunk_size, chunks, monVars, iconVars, runVars >>

\* list(chunk_list(audio_files, chunk_size))
FilesChunk ==
    /\ entry = "files"
    /\ pc = "chunk_list"
    /\ chunks' = ChunkList(audio_files, chunk_size)
    /\ pc' = "done"
    /\ UNCHANGED << credVars, entry, variant, exc, trace, folder_exists, listing,
                    chunk_size, audio_files, monVars, iconVars, runVars >>

NextFiles == FilesNotFound \/ FilesScan \/ FilesChunk

SpecFiles == InitFiles /\ [][NextFiles]_vars

(***************************************************************************)
(* The processing monitor: wait_and_create (package), wait_for_processing  *)
(* (legacy).  One action per pass of the polling loop.                     *)
(***************************************************************************)
\* whether the whole run is being modelled: entry "run", or "fair", the
\* same run on fewer inputs
InRun == entry \in {"run", "fair"}

\* where control goes when the monitor returns, and when it raises
AfterMonitor ==
    IF ~InRun THEN "done"
    ELSE IF variant = "package" THEN "report_created"
    ELSE IF mode = "upload" THEN "final_prompt"
    ELSE "randomize_icons"
Raised == IF InRun THEN "finally" ELSE "done"

\* the responses the content listing can give
RunResponses ==
    { [ok |-> TRUE,
       body |-> [kind |-> "object", has_cards |-> TRUE,
                 cards |-> << [title |-> <<"X">>, cardId |-> "123"] >>]],
      [ok |-> TRUE, body |-> [kind |-> "list", has_cards |-> FALSE, cards |-> << >>]],
      [ok |-> FALSE, body |-> [kind |-> "object", has_cards |-> FALSE, cards |-> << >>]] }
ResponsesHere == IF InRun THEN RunResponses ELSE Responses(MaxCards)

\* the loop condition: time.time() - start_time < timeout
WithinTimeout == elapsed < timeout

\* if page.is_enabled("button.create-btn")
ObservedEnabledNegated(enabled) == ~enabled
ObservedEnabled(enabled) == enabled

\* a tick on which the create control is enabled: the monitor is DONE; the
\* package goes on to click create, the legacy script returns
MonTickEnabled ==
    /\ pc = "monitor"
    /\ WithinTimeout
    /\ \E enabled \in BOOLEAN :
        /\ ObservedEnabled(enabled)
        /\ ticks' = Append(ticks, [enabled |-> enabled, at |-> elapsed])
    /\ mon' = "DONE"
    /\ IF variant = "package"
       THEN /\ status_text' = "Processing complete. Creating playlist..."
            /\ pc' = "create"
       ELSE /\ pc' = AfterMonitor
            /\ UNCHANGED status_text
    /\ UNCHANGED << credVars, entry, variant, exc, trace, filesVars, playlist_name,
                    timeout, elapsed, response, created_url, warned, iconVars, runVars >>

\* what page.content() gives on a tick: a text that holds one of the status
\* words, a text that holds none, or an error
PageContents == {"processing", "other", "raises"}

\* the scan is inside try/except with an empty handler: an error of
\* page.content() does not leave it
ScanRaisesOnError(content) == content = "raises"
ScanRaises(content) == FALSE

\* a tick on which the create control is not enabled and the page content
\* is as given: the status-text scan, then the sleep
MonTickDisabledWith(content) ==
    /\ pc = "monitor"
    /\ WithinTimeout
    /\ \E enabled \in BOOLEAN :
        /\ ~ObservedEnabled(enabled)
        /\ ticks' = Append(ticks, [enabled |-> enabled, at |-> elapsed])
    /\ IF ScanRaises(content)
       THEN /\ exc' = "PlaywrightError"
            /\ pc' = Raised
            /\ UNCHANGED << status_text, elapsed >>
       ELSE /\ status_text' = IF content = "processing" /\ variant = "package"
                              THEN "Server is transcoding/processing..."
                              ELSE status_text
            /\ \E delay \in 0..MaxDelay : elapsed' = elapsed + Poll(variant) + delay
            /\ UNCHANGED << pc, exc >>
    /\ UNCHANGED << credVars, entry, variant, trace, filesVars, playlist_name,
                    timeout, mon, response, created_url, warned, iconVars, runVars >>

\* a tick on which it is not enabled, whatever the page content
MonTickDisabled == \E content \in PageContents : MonTickDisabledWith(content)

\* what follows the loop: raise TimeoutError (package), or print the warning
\* and return (legacy)
TimeoutNeverRaises(v) == FALSE
TimeoutRaises(v) == v = "package"

\* the loop condition fails: the package raises TimeoutError, the legacy
\* script prints a warning and returns
MonTimeout ==
    /\ pc = "monitor"
    /\ ~WithinTimeout
    /\ mon' = "TIMED_OUT"
    /\ IF TimeoutRaises(variant)
       THEN /\ exc' = "TimeoutError"
            /\ pc' = Raised
            /\ UNCHANGED trace
       ELSE /\ Log("warn_timeout")
            /\ pc' = AfterMonitor
            /\ UNCHANGED exc
    /\ UNCHANGED << credVars, entry, variant, filesVars, playlist_name, timeout, elapsed,
                    ticks, status_text, response, created_url, warned, iconVars, runVars >>

\* with page.expect_response("**/content/mine", timeout=60000):
\*     page.click("button.create-btn", force=True)
\* the response arrives, or the wait for it times out
MonCreateClick ==
    /\ pc = "create"
    /\ Log("click_create")
    /\ \/ \E r \in ResponsesHere :
            /\ response' = r
            /\ status_text' = "Waiting for playlist data..."
            /\ pc' = "create_response"
            /\ UNCHANGED exc
       \/ /\ exc' = "PlaywrightTimeoutError"
          /\ pc' = Raised
          /\ UNCHANGED << response, status_text >>
    /\ UNCHANGED << credVars, entry, variant, filesVars, playlist_name, timeout, elapsed,
                    ticks, mon, created_url, warned, iconVars, runVars >>

\* if not response.ok
ResponseOkAlways(r) == TRUE
ResponseOk(r) == r.ok

\* response.ok is false: raise RuntimeError
MonApiError ==
    /\ pc = "create_response"
    /\ ~ResponseOk(response)
    /\ exc' = "RuntimeError"
    /\ pc' = Raised
    /\ UNCHANGED << credVars, entry, variant, trace, filesVars, monVars, iconVars, runVars >>

\* parse the body, find the card by title, return its edit URL or the
\* library URL with a warning
MonMatch ==
    /\ pc = "create_response"
    /\ ResponseOk(response)
    /\ LET r == MatchResult(response.body, playlist_name)
       IN  /\ created_url' = r.url
           /\ warned' = r.warned
    /\ pc' = AfterMonitor
    /\ UNCHANGED << credVars, entry, variant, exc, trace, filesVars, playlist_name,
                    timeout, elapsed, ticks, mon, status_text, response, iconVars, runVars >>

InitMonitor ==
    /\ entry = "monitor"
    /\ pc = "monitor"
    /\ variant \in {"package", "legacy"}
    /\ exc = "none"
    /\ trace = << >>
    /\ FilesIdle
    /\ playlist_name \in PlaylistNames
    /\ timeout \in 0..MaxTimeout
    /\ elapsed = 0
    /\ ticks = << >>
    /\ mon = "WAITING"
    /\ status_text = "Processing tracks..."
    /\ response = NoResponse
    /\ created_url = NoUrl
    /\ warned = FALSE
    /\ IconIdle
    /\ RunIdle
    /\ CredIdle

NextMonitor ==
    \/ MonTickEnabled
    \/ MonTickDisabled
    \/ MonTimeout
    \/ MonCreateClick
    \/ MonApiError
    \/ MonMatch

SpecMonitor == InitMonitor /\ [][NextMonitor]_vars

(***************************************************************************)
(* The icon randomizer: randomize_icons.                                   *)
(***************************************************************************)
MaxIcons == 2
MaxDialog == 2

\* the src attribute of a dialog icon; NoSrc is a missing or empty src
\* (get_attribute gives None or "", both falsy)
NoSrc == ""
Srcs == { NoSrc, "s1", "s2" }
AvailableLists(n) == UNION { [1..k -> Srcs] : k \in 0..n }

RunAvailable == { << >>, <<"s1">>, <<NoSrc, "s1">> }
AvailableHere == IF InRun \/ entry = "live" THEN RunAvailable ELSE AvailableLists(MaxDialog)
CountsHere == IF InRun THEN {MaxIcons} ELSE 1..MaxIcons

\* the numbers of matching elements the page may show when an iteration
\* begins: the editor's track list may shift under the "live" harness and
\* is stable elsewhere
MatchingHere == IF entry = "live" THEN 0..MaxIcons ELSE {count}

\* count = icon_locator.count() is read once, before the loop, and
\* range(count) is built from it
LoopBoundLive(snapshot, live) == live
LoopBound(snapshot, live) == snapshot

\* where control goes when randomize_icons returns
AfterIconsSkipsSave == IF ~InRun THEN "done" ELSE "finally"
AfterIcons ==
    IF ~InRun THEN "done"
    ELSE IF variant = "package" THEN "save"
    ELSE "final_prompt"

\* the candidates: the positions of `avail` whose src is not recorded as used
\* (the legacy script also leaves out the icons with no src)
ValidOptsAll(v, avail, used) == 1..Len(avail)
ValidOpts(v, avail, used) ==
    IF v = "package"
    THEN {k \in 1..Len(avail) : avail[k] \notin used}
    ELSE {k \in 1..Len(avail) : avail[k] # NoSrc /\ avail[k] \notin used}

\* the leading cookie banner step, the wait for the first icon trigger and
\* the count of the triggers
IconStart ==
    /\ pc = "randomize_icons"
    /\ \E banner \in {"visible", "hidden", "raises"}, appears \in BOOLEAN :
        /\ trace' = trace
                    \o (IF banner = "visible" THEN << Event("click_cookie", 0) >> ELSE << >>)
                    \o (IF appears THEN << >> ELSE << Event("warn_no_icons", 0) >>)
        /\ IF appears
           THEN /\ \E c \in CountsHere : count' = c
                /\ assigned' = [t \in 1..count' |-> "unset"]
                /\ matching' = count'
                /\ pc' = "icon_loop"
           ELSE /\ pc' = AfterIcons
                /\ UNCHANGED << count, assigned, matching >>
    /\ icon_i' = 0
    /\ used_icon_srcs' = {}
    /\ since_reset' = << >>
    /\ UNCHANGED << credVars, entry, variant, exc, filesVars, monVars, runVars, available, chosen,
                    valid_opts, recycled, dialog, on_editor >>

\* for i in range(count): the loop is over.  (available, chosen, valid_opts
\* and recycled are locals that each pass overwrites before reading them:
\* they are cleared when a pass ends.)
IconLoopEnd ==
    /\ pc = "icon_loop"
    /\ icon_i >= LoopBound(count, matching)
    /\ pc' = AfterIcons
    /\ UNCHANGED << credVars, entry, variant, exc, trace, filesVars, monVars, iconVars, runVars >>

\* the test of the safety check: "/edit" in page.url
StillOnEditorAlways(url_has_edit) == TRUE
StillOnEditor(url_has_edit) == url_has_edit

\* if "/edit" not in page.url: print the error and break
IconUrlCheck ==
    /\ pc = "icon_loop"
    /\ icon_i < LoopBound(count, matching)
    /\ \E m \in MatchingHere : matching' = m
    /\ \E url_has_edit \in BOOLEAN :
        /\ on_editor' = url_has_edit
        /\ IF StillOnEditor(url_has_edit)
           THEN pc' = "icon_open" /\ UNCHANGED trace
           ELSE pc' = AfterIcons /\ Log("error_navigated_away")
    /\ UNCHANGED << credVars, entry, variant, exc, filesVars, monVars, runVars, count,
                    icon_i, used_icon_srcs, available, chosen, valid_opts, recycled,
                    since_reset, assigned, dialog >>

\* step 1 of the try block, up to query_selector_all: scroll, click the
\* trigger (forced if the plain click fails), wait for the dialog and for
\* its icons
IconOpen ==
    /\ pc = "icon_open"
    /\ \/ \E avail \in AvailableHere :
            /\ icon_i < matching
            /\ trace' = Append(trace, Event("click_trigger", icon_i))
            /\ dialog' = TRUE
            /\ available' = avail
            /\ pc' = "icon_pick"
       \/ \* icon_locator.nth(i) matches nothing, or scrolling or both
          \* clicks raise: nothing was clicked
          /\ pc' = "icon_recover"
          /\ UNCHANGED << trace, dialog, available >>
       \/ \* the click went through and a wait timed out
          /\ icon_i < matching
          /\ trace' = Append(trace, Event("click_trigger", icon_i))
          /\ \E d \in BOOLEAN : dialog' = d
          /\ pc' = "icon_recover"
          /\ UNCHANGED available
    /\ chosen' = 0
    /\ UNCHANGED << credVars, entry, variant, exc, filesVars, monVars, runVars, count,
                    icon_i, used_icon_srcs, valid_opts, recycled, since_reset,
                    assigned, on_editor, matching >>

\* the dialog exposes no icon: press Escape, pause, next icon
IconNoneAvailable ==
    /\ pc = "icon_pick"
    /\ available = << >>
    /\ Log("press_escape")
    /\ \E d \in BOOLEAN : dialog' = d
    /\ icon_i' = icon_i + 1
    /\ available' = << >>
    /\ chosen' = 0
    /\ pc' = "icon_loop"
    /\ UNCHANGED << credVars, entry, variant, exc, filesVars, monVars, runVars, count,
                    used_icon_srcs, valid_opts, recycled, since_reset, assigned,
                    on_editor, matching >>

\* if chosen_src: used_icon_srcs.add(chosen_src), the statement before the
\* click of the chosen icon
RecordNothing(used, src) == used
Record(used, src) == IF src # NoSrc THEN used \cup {src} ELSE used

\* step 2: build the candidates, clear the used-set if there is none, pick
\* one at random and record its src as used
IconChoose ==
    /\ pc = "icon_pick"
    /\ available # << >>
    /\ LET valid == ValidOpts(variant, available, used_icon_srcs)
           recycle == valid = {}
           opts == IF recycle THEN 1..Len(available) ELSE valid
           used == IF recycle THEN {} ELSE used_icon_srcs
       IN  \E k \in opts :
              /\ valid_opts' = opts
              /\ recycled' = recycle
              /\ chosen' = k
              /\ used_icon_srcs' = Record(used, available[k])
              /\ since_reset' =
                    IF recycle THEN << available[k] >>
                    ELSE Append(since_reset, available[k])
    /\ pc' = "icon_confirm"
    /\ UNCHANGED << credVars, entry, variant, exc, trace, filesVars, monVars, runVars,
                    count, icon_i, available, assigned, dialog, on_editor, matching >>

\* get_attribute raises while the candidates are built
IconChooseFails ==
    /\ pc = "icon_pick"
    /\ available # << >>
    /\ pc' = "icon_recover"
    /\ UNCHANGED << credVars, entry, variant, exc, trace, filesVars, monVars, iconVars, runVars >>

\* chosen_el.click(force=True), then the wait for the dialog to close
IconConfirm ==
    /\ pc = "icon_confirm"
    /\ \/ \* both succeed: pause, next icon
          /\ trace' = Append(trace, Event("click_icon", icon_i))
          /\ assigned' = [assigned EXCEPT ![icon_i + 1] = available[chosen]]
          /\ dialog' = FALSE
          /\ icon_i' = icon_i + 1
          /\ available' = << >>
          /\ chosen' = 0
          /\ valid_opts' = {}
          /\ recycled' = FALSE
          /\ pc' = "icon_loop"
       \/ \* the click raises
          /\ pc' = "icon_recover"
          /\ UNCHANGED << trace, assigned, dialog, icon_i, available, chosen,
                          valid_opts, recycled >>
       \/ \* the click went through and the dialog did not close in time
          /\ trace' = Append(trace, Event("click_icon", icon_i))
          /\ assigned' = [assigned EXCEPT ![icon_i + 1] = available[chosen]]
          /\ pc' = "icon_recover"
          /\ UNCHANGED << dialog, icon_i, available, chosen, valid_opts, recycled >>
    /\ UNCHANGED << credVars, entry, variant, exc, filesVars, monVars, runVars, count,
                    used_icon_srcs, since_reset, on_editor, matching >>

\* if page.is_visible(dialog): the Escape key is pressed when the dialog was
\* seen visible
EscapeIssuedAlways(visible) == TRUE
EscapeIssued(visible) == visible = "yes"

\* page.wait_for_selector(diag_selector, state="hidden", timeout=3000) after
\* the Escape: only the legacy script has it
WaitsForClose(v) == v = "legacy"

\* after the except block the for loop goes on with the next index
AfterRecoveryLeavesLoop == AfterIcons
AfterRecovery == "icon_loop"

\* the except block: page.is_visible sees the dialog, does not see it, or
\* raises; Escape is pressed if it was seen (the legacy script then waits
\* for the dialog to close; the dialog closes, or the wait times out);
\* errors of the recovery are swallowed
IconRecover ==
    /\ pc = "icon_recover"
    /\ \E visible \in {"yes", "no", "raises"} :
        /\ visible = "yes" => dialog
        /\ visible = "no" => ~dialog
        /\ IF EscapeIssued(visible)
           THEN /\ trace' = trace \o << Event("recover_escape", icon_i) >>
                              \o (IF WaitsForClose(variant)
                                  THEN << Event("wait_dialog_hidden", icon_i) >>
                                  ELSE << >>)
                /\ \E d \in BOOLEAN : dialog' = d
           ELSE UNCHANGED << trace, dialog >>
    /\ icon_i' = icon_i + 1
    /\ available' = << >>
    /\ chosen' = 0
    /\ valid_opts' = {}
    /\ recycled' = FALSE
    /\ pc' = AfterRecovery
    /\ UNCHANGED << credVars, entry, variant, exc, filesVars, monVars, runVars, count,
                    used_icon_srcs, since_reset, assigned, on_editor, matching >>

IconsInit(e) ==
    /\ entry = e
    /\ pc = "randomize_icons"
    /\ variant \in {"package", "legacy"}
    /\ exc = "none"
    /\ trace = << >>
    /\ FilesIdle
    /\ MonIdle
    /\ IconIdle
    /\ RunIdle
    /\ CredIdle

NextIcons ==
    \/ IconStart
    \/ IconLoopEnd
    \/ IconUrlCheck
    \/ IconOpen
    \/ IconNoneAvailable
    \/ IconChoose
    \/ IconChooseFails
    \/ IconConfirm
    \/ IconRecover

InitIcons == IconsInit("icons")
SpecIcons == InitIcons /\ [][NextIcons]_vars

\* randomize_icons on a page whose track list shifts while it runs
InitIconsLive == IconsInit("live")
SpecIconsLive == InitIconsLive /\ [][NextIcons]_vars

(***************************************************************************)
(* The run: run_playwright / main, run_upload_mode, run_icon_mode.         *)
(***************************************************************************)
MaxEmptyNames == 1

\* chunk_size = 3 of the legacy run_upload_mode, and the default of
\* run_playwright, which the icons command leaves alone
LegacyChunkSize == 3
DefaultChunkSize == 3

\* what the operator types at "Enter playlist name: "
RawNames == { << >>, <<"X">>, <<" ", "X", " ">> }

\* what the operator types at "Enter path to audio folder: "
RawFolders == { <<"'", "d", "'">>, <<" ", "b">>, <<"e">>, <<"x">> }
RawFoldersHere == IF entry = "fair" THEN RawFolders \ { <<"'", "d", "'">> } ELSE RawFolders

\* folder_input.replace("'", "").replace('"', "")
RemoveQuotes(s) == SelectSeq(s, LAMBDA c : c # "'" /\ c # "\"")
CleanPath(raw) == RemoveQuotes(Strip(raw))

\* the file system: the folders that exist and what they hold
FsExists(path) == path \in { <<"d">>, <<"b">>, <<"e">> }
FsListing(path) ==
    CASE path = <<"d">> -> SevenFiles
      [] path = <<"b">> -> << File(<<"b", ".", "m", "p", "3">>),
                              File(<<"A", ".", "M", "P", "3">>) >>
      [] path = <<"e">> -> << File(<<"e", ".", "t", "x", "t">>) >>
      [] OTHER -> << >>

HasEvent(e) == \E n \in 1..Len(trace) : trace[n].ev = e
CountEvents(e) == Cardinality({n \in 1..Len(trace) : trace[n].ev = e})

\* what follows a login wait that timed out: the package returns from the
\* mode function, the legacy script prompts the operator and goes on
LoginTimeoutAlwaysResumes(v) == TRUE
LoginTimeoutResumes(v) == v = "legacy"

\* whether the exit of the run calls browser.close(): the package does in a
\* finally block, the legacy script only when no exception was raised
ClosesBrowser(v, e) == v = "package" \/ e = "none"

\* where run_upload_mode goes after "Error: Folder not found": it returns
AfterFolderNotFoundLogsIn == "login"
AfterFolderNotFound == "finally"

\* for i, chunk in enumerate(chunks, 1): the loop is over after the last batch
UploadLoopStopsEarly(k, cs) == k >= Len(cs)
UploadLoopDone(k, cs) == k > Len(cs)

(***************************************************************************)
(* auth.py: get_credentials (the legacy script holds the same function).   *)
(***************************************************************************)
\* what the two environment variables can hold, and what the operator types
EnvValues == { None, "", "env1", "env2" }
TypedValues == { "", "typed1", "typed2" }
EnvHere ==
    IF entry = "fair" THEN { None }
    ELSE IF entry = "run" THEN { None, "env1" }
    ELSE EnvValues
TypedHere == IF InRun THEN { "typed1" } ELSE TypedValues

\* `not email`: the value is None or the empty string
MissingOnlyUnset(v) == v = None
Missing(v) == v = None \/ v = ""

\* where control goes when get_credentials returns
AfterCredentials == IF InRun THEN "launch" ELSE "done"

\* email = os.getenv("YOTO_EMAIL"); password = os.getenv("YOTO_PASSWORD");
\* control then reaches the first input() of the two, or the return
GetCredentials ==
    /\ pc = "get_credentials"
    /\ email' = env_email
    /\ password' = env_password
    /\ IF Missing(email') THEN pc' = "prompt_email" /\ UNCHANGED credentials
       ELSE IF Missing(password') THEN pc' = "prompt_password" /\ UNCHANGED credentials
       ELSE pc' = AfterCredentials /\ credentials' = << email', password' >>
    /\ UNCHANGED << entry, variant, exc, trace, filesVars, monVars, iconVars, runVars,
                    env_email, env_password, answers >>

\* email = input("Enter Yoto Email: ")
PromptEmail ==
    /\ pc = "prompt_email"
    /\ \E typed \in TypedHere :
        /\ email' = typed
        /\ answers' = Append(answers, [prompt |-> "email", text |-> typed])
    /\ Log("prompt_email")
    /\ IF Missing(password) THEN pc' = "prompt_password" /\ UNCHANGED credentials
       ELSE pc' = AfterCredentials /\ credentials' = << email', password >>
    /\ UNCHANGED << entry, variant, exc, filesVars, monVars, iconVars, runVars,
                    env_email, env_password, password >>

\* password = input("Enter Yoto Password: "); return email, password
PromptPassword ==
    /\ pc = "prompt_password"
    /\ \E typed \in TypedHere :
        /\ password' = typed
        /\ answers' = Append(answers, [prompt |-> "password", text |-> typed])
    /\ Log("prompt_password")
    /\ pc' = AfterCredentials
    /\ credentials' = << email, password' >>
    /\ UNCHANGED << entry, variant, exc, filesVars, monVars, iconVars, runVars,
                    env_email, env_password, email >>

InitCredentials ==
    /\ entry = "creds"
    /\ pc = "get_credentials"
    /\ variant \in {"package", "legacy"}
    /\ exc = "none"
    /\ trace = << >>
    /\ FilesIdle
    /\ MonIdle
    /\ IconIdle
    /\ RunIdle
    /\ env_email \in EnvHere
    /\ env_password \in EnvHere
    /\ email = None
    /\ password = None
    /\ answers = << >>
    /\ credentials = << >>

NextCredentials == GetCredentials \/ PromptEmail \/ PromptPassword

SpecCredentials == InitCredentials /\ [][NextCredentials]_vars

\* the values --playlist and --folder can be given ("" is the default)
OptPlaylists == { << >>, <<"X">> }
OptFolders == { << >>, <<"d">> }
OptPlaylistsHere == IF entry = "fair" THEN { << >> } ELSE OptPlaylists
OptFoldersHere == IF entry = "fair" THEN { << >> } ELSE OptFolders

\* the values --chunk-size can be given (min=1)
ChunkSizesHere == IF entry = "fair" THEN { DefaultChunkSize } ELSE 1..MaxChunk

\* the command line.  Package: the upload command sets its --playlist and
\* --folder aside (_ = playlist, _ = folder) and calls run_playwright with
\* chunk_size and headless = not visible; the icons command calls it with
\* the URL and headless = not visible.  Legacy: main() reads the URL from
\* sys.argv; its browser is launched with headless=False and its chunk
\* size is 3.
CliCommand ==
    /\ pc = "cli"
    /\ IF variant = "package"
       THEN /\ \E visible \in BOOLEAN : headless' = ~visible
            /\ IF mode = "upload"
               THEN /\ \E size \in ChunkSizesHere : chunk_size' = size
                    /\ \E playlist \in OptPlaylistsHere : opt_playlist' = playlist
                    /\ \E folder \in OptFoldersHere : opt_folder' = folder
               ELSE /\ chunk_size' = DefaultChunkSize
                    /\ UNCHANGED << opt_playlist, opt_folder >>
       ELSE /\ headless' = FALSE
            /\ chunk_size' = LegacyChunkSize
            /\ UNCHANGED << opt_playlist, opt_folder >>
    /\ pc' = "get_credentials"
    /\ UNCHANGED << credVars, entry, variant, exc, trace, folder_exists, listing, audio_files,
                    chunks, monVars, iconVars, mode, browser, folder_input,
                    chunk_index, upload_via, attempts, uploaded >>

\* p.chromium.launch(headless=...), new_context, new_page, then the mode
RunLaunch ==
    /\ pc = "launch"
    /\ browser' = "open"
    /\ Log("launch")
    /\ pc' = IF mode = "icons" THEN "login" ELSE "prompt_name"
    /\ UNCHANGED << credVars, entry, variant, exc, filesVars, monVars, iconVars, headless,
                    mode, folder_input, chunk_index, upload_via, attempts, opt_playlist,
                    opt_folder, uploaded >>

\* playlist_name = input(...).strip(), asked again while it is empty
RunPromptName ==
    /\ pc = "prompt_name"
    /\ \E raw \in RawNames :
        /\ Strip(raw) = << >> => CountEvents("prompt_name") < MaxEmptyNames
        /\ playlist_name' = Strip(raw)
        /\ pc' = IF Strip(raw) = << >> THEN "prompt_name" ELSE "prompt_folder"
    /\ Log("prompt_name")
    /\ UNCHANGED << credVars, entry, variant, exc, filesVars, timeout, elapsed, ticks, mon,
                    status_text, response, created_url, warned, iconVars, runVars >>

\* folder_input = input(...).strip() without quotes
RunPromptFolder ==
    /\ pc = "prompt_folder"
    /\ \E raw \in RawFoldersHere :
        /\ folder_input' = CleanPath(raw)
        /\ folder_exists' = FsExists(CleanPath(raw))
        /\ listing' = FsListing(CleanPath(raw))
    /\ Log("prompt_folder")
    /\ pc' = "scan"
    /\ UNCHANGED << credVars, entry, variant, exc, chunk_size, audio_files, chunks, monVars,
                    iconVars, headless, mode, browser, chunk_index, upload_via,
                    attempts, opt_playlist, opt_folder, uploaded >>

\* get_valid_audio_files raises FileNotFoundError: print the error, return
RunFolderNotFound ==
    /\ pc = "scan"
    /\ ~folder_exists
    /\ Log("error_folder_not_found")
    /\ pc' = AfterFolderNotFound
    /\ UNCHANGED << credVars, entry, variant, exc, filesVars, monVars, iconVars, runVars >>

\* if not audio_files: print("No valid audio files found."); return
NothingToUploadNever(files) == FALSE
NothingToUpload(files) == files = << >>

\* the folder exists: no valid file, return; else build the batches
RunScan ==
    /\ pc = "scan"
    /\ folder_exists
    /\ audio_files' = GetValidAudioFiles(listing)
    /\ IF NothingToUpload(audio_files')
       THEN /\ Log("no_valid_files")
            /\ pc' = "finally"
            /\ UNCHANGED chunks
       ELSE /\ chunks' = ChunkList(audio_files', chunk_size)
            /\ pc' = "login"
            /\ UNCHANGED trace
    /\ UNCHANGED << credVars, entry, variant, exc, folder_exists, listing, chunk_size,
                    monVars, iconVars, runVars >>

\* page.goto(account), the two fills and the click on submit; page.goto may
\* raise
RunLogin ==
    /\ pc = "login"
    /\ \/ /\ trace' = trace \o << Event("goto_account", 0), Event("fill_username", 0),
                                  Event("fill_password", 0), Event("click_submit", 0) >>
          /\ pc' = "login_wait"
          /\ UNCHANGED exc
       \/ /\ exc' = "PlaywrightError"
          /\ pc' = "finally"
          /\ UNCHANGED trace
    /\ UNCHANGED << credVars, entry, variant, filesVars, monVars, iconVars, runVars >>

\* page.wait_for_url("**/my-account", timeout=60000) returns in time
RunLoginOk ==
    /\ pc = "login_wait"
    /\ pc' = "navigate"
    /\ UNCHANGED << credVars, entry, variant, exc, trace, filesVars, monVars, iconVars, runVars >>

\* timeout=60000 of page.wait_for_url: a positive timeout bounds the wait
\* (Playwright takes 0 as no timeout)
LoginTimeoutMs == 60000
WaitNeverBounded(timeout_ms) == FALSE
WaitIsBounded(timeout_ms) == timeout_ms > 0

\* it times out: the package prints its message and returns, the legacy
\* script blocks on input() until the operator presses Enter
RunLoginTimeout ==
    /\ pc = "login_wait"
    /\ WaitIsBounded(LoginTimeoutMs)
    /\ Log("login_timeout")
    /\ pc' = IF LoginTimeoutResumes(variant) THEN "login_prompt" ELSE "finally"
    /\ UNCHANGED << credVars, entry, variant, exc, filesVars, monVars, iconVars, runVars >>

\* the operator presses Enter
RunLoginConfirmed ==
    /\ pc = "login_prompt"
    /\ Log("login_confirmed")
    /\ pc' = "navigate"
    /\ UNCHANGED << credVars, entry, variant, exc, filesVars, monVars, iconVars, runVars >>

\* upload mode: page.goto(editor) and the fill of the playlist name;
\* icon mode: page.goto(edit_url), the legacy script then waits for processing
RunNavigate ==
    /\ pc = "navigate"
    /\ IF mode = "upload"
       THEN /\ trace' = trace \o << Event("goto_editor", 0), Event("fill_name", 0) >>
            /\ chunk_index' = 1
            /\ pc' = "upload"
            /\ UNCHANGED << timeout, elapsed >>
       ELSE /\ Log("goto_edit_url")
            /\ UNCHANGED chunk_index
            /\ IF variant = "package"
               THEN pc' = "randomize_icons" /\ UNCHANGED << timeout, elapsed >>
               ELSE pc' = "monitor" /\ timeout' = MaxTimeout /\ elapsed' = 0
    /\ UNCHANGED << credVars, entry, variant, exc, filesVars, playlist_name, ticks, mon,
                    status_text, response, created_url, warned, iconVars, headless,
                    mode, browser, folder_input, upload_via, attempts, opt_playlist,
                    opt_folder, uploaded >>

\* page.goto raises (the page cannot be reached)
RunNavigateFails ==
    /\ pc = "navigate"
    /\ Log(IF mode = "upload" THEN "goto_editor" ELSE "goto_edit_url")
    /\ exc' = "PlaywrightError"
    /\ pc' = "finally"
    /\ UNCHANGED << credVars, entry, variant, filesVars, monVars, iconVars, runVars >>

\* file_paths = [str(Path(f).absolute()) for f in chunk_files]: the files
\* come from iterdir() of the folder, and the working directory is "/"
AbsolutePath(folder, f) == << "/" >> \o folder \o << "/" >> \o f.name
FilePaths(folder, chunk_files) ==
    [i \in 1..Len(chunk_files) |-> AbsolutePath(folder, chunk_files[i])]

\* the except clause of upload_chunk: the fallback runs when the direct
\* assignment raised
NeedsFallbackAlways(direct_ok) == TRUE
NeedsFallback(direct_ok) == ~direct_ok

Attempt(via, k, paths, raised) ==
    [via |-> via, k |-> k, paths |-> paths, raised |-> raised]

\* upload_chunk: page.set_input_files; if it raises, the click on the label
\* inside expect_file_chooser and file_chooser.set_files; if the click, the
\* wait for the chooser or set_files raises, the exception leaves
\* run_upload_mode
RunUploadAssign ==
    /\ pc = "upload"
    /\ ~UploadLoopDone(chunk_index, chunks)
    /\ trace' = Append(trace, Event("upload_chunk", chunk_index))
    /\ uploaded' = Append(uploaded, chunks[chunk_index])
    /\ \E direct_ok \in BOOLEAN, chooser \in {"ok", "click_raises", "set_files_raises"} :
        LET file_paths == FilePaths(folder_input, chunks[chunk_index])
            direct == << Attempt("set_input_files", chunk_index, file_paths, ~direct_ok) >>
            click == << Attempt("click_add_audio", chunk_index, << >>,
                                chooser = "click_raises") >>
            set_files == << Attempt("set_files", chunk_index, file_paths,
                                    chooser = "set_files_raises") >>
        IN  IF NeedsFallback(direct_ok)
            THEN /\ attempts' = direct \o click
                                 \o (IF chooser = "click_raises" THEN << >> ELSE set_files)
                 /\ IF chooser = "ok"
                    THEN upload_via' = "chooser" /\ pc' = "upload_settle" /\ UNCHANGED exc
                    ELSE upload_via' = "none" /\ pc' = "finally" /\ exc' = "PlaywrightError"
            ELSE /\ attempts' = direct
                 /\ upload_via' = "direct" /\ pc' = "upload_settle" /\ UNCHANGED exc
    /\ UNCHANGED << credVars, entry, variant, filesVars, monVars, iconVars, headless, mode,
                    browser, folder_input, chunk_index, opt_playlist, opt_folder >>

\* time.sleep(10), upload_chunk returns, the loop goes to the next batch
RunUploadSettle ==
    /\ pc = "upload_settle"
    /\ trace' = Append(trace, Event("upload_returned", chunk_index))
    /\ upload_via' = "none"
    /\ attempts' = << >>
    /\ chunk_index' = chunk_index + 1
    /\ pc' = "upload"
    /\ UNCHANGED << credVars, entry, variant, exc, filesVars, monVars, iconVars, headless,
                    mode, browser, folder_input, opt_playlist, opt_folder, uploaded >>

\* the loop is over: wait_and_create (package), wait_for_processing (legacy)
RunUploadsDone ==
    /\ pc = "upload"
    /\ UploadLoopDone(chunk_index, chunks)
    /\ Log("monitor_start")
    /\ timeout' = MaxTimeout
    /\ elapsed' = 0
    /\ pc' = "monitor"
    /\ UNCHANGED << credVars, entry, variant, exc, filesVars, playlist_name, ticks, mon,
                    status_text, response, created_url, warned, iconVars, runVars >>

\* the package prints the edit URL
RunReportCreated ==
    /\ pc = "report_created"
    /\ Log("print_created")
    /\ pc' = "finally"
    /\ UNCHANGED << credVars, entry, variant, exc, filesVars, monVars, iconVars, runVars >>

\* the legacy script ends both modes on input(): Enter closes the browser
RunFinalPrompt ==
    /\ pc = "final_prompt"
    /\ Log("prompt_final")
    /\ pc' = "finally"
    /\ UNCHANGED << credVars, entry, variant, exc, filesVars, monVars, iconVars, runVars >>

\* the save step of the package's run_icon_mode
RunSave ==
    /\ pc = "save"
    /\ \/ \* the control is not enabled
          /\ Log("print_icons_updated")
          /\ UNCHANGED exc
       \/ /\ trace' = trace \o << Event("click_save", 0), Event("print_icons_updated", 0) >>
          /\ UNCHANGED exc
       \/ \* wait_for_load_state raises
          /\ Log("click_save")
          /\ exc' = "PlaywrightError"
    /\ pc' = "finally"
    /\ UNCHANGED << credVars, entry, variant, filesVars, monVars, iconVars, runVars >>

\* the end of the run: browser.close() in the package's finally block; in
\* the legacy script only when the mode function returned
RunExit ==
    /\ pc = "finally"
    /\ IF ClosesBrowser(variant, exc)
       THEN browser' = "closed" /\ Log("close")
       ELSE UNCHANGED << browser, trace >>
    /\ pc' = "done"
    /\ UNCHANGED << credVars, entry, variant, exc, filesVars, monVars, iconVars, headless,
                    mode, folder_input, chunk_index, upload_via, attempts, opt_playlist,
                    opt_folder, uploaded >>

RunInit(e) ==
    /\ entry = e
    /\ pc = "cli"
    /\ variant \in {"package", "legacy"}
    /\ mode \in {"upload", "icons"}
    /\ headless = TRUE
    /\ exc = "none"
    /\ trace = << >>
    /\ FilesIdle
    /\ MonIdle
    /\ IconIdle
    /\ browser = "none"
    /\ folder_input = << >>
    /\ chunk_index = 0
    /\ upload_via = "none"
    /\ attempts = << >>
    /\ opt_playlist = << >>
    /\ opt_folder = << >>
    /\ uploaded = << >>
    /\ env_email \in EnvHere
    /\ env_password \in EnvHere
    /\ email = None
    /\ password = None
    /\ answers = << >>
    /\ credentials = << >>

Init == RunInit("run")

Next ==
    \/ CliCommand
    \/ NextCredentials
    \/ RunLaunch
    \/ RunPromptName
    \/ RunPromptFolder
    \/ RunFolderNotFound
    \/ RunScan
    \/ RunLogin
    \/ RunLoginOk
    \/ RunLoginTimeout
    \/ RunLoginConfirmed
    \/ RunNavigate
    \/ RunNavigateFails
    \/ RunUploadAssign
    \/ RunUploadSettle
    \/ RunUploadsDone
    \/ RunReportCreated
    \/ RunFinalPrompt
    \/ RunSave
    \/ RunExit
    \/ NextMonitor
    \/ NextIcons

Spec == Init /\ [][Next]_vars

\* Time passes and the operator answers the prompts: every step of the run
\* that is enabled is eventually taken, except that the page need never
\* reach the account URL (RunLoginOk is the environment's step; the timeout
\* of the wait is the program's).
RunProgress == Next /\ ~(pc = "login_wait" /\ pc' = "navigate")

InitFair == RunInit("fair")

SpecFair == InitFair /\ [][Next]_vars /\ WF_vars(RunProgress)

(***************************************************************************)
(* Properties.                                                             *)
(***************************************************************************)
RECURSIVE Flatten(_)
Flatten(ss) == IF ss = << >> THEN << >> ELSE Head(ss) \o Flatten(Tail(ss))

\* C1: the batches of chunk_list, concatenated in order, are the input list;
\* every batch but the last has exactly chunk_size files, and the last one
\* is non-empty and no larger than chunk_size.
C1_ChunksPartition ==
    (entry = "files" /\ pc = "done" /\ exc = "none") =>
        /\ Flatten(chunks) = audio_files
        /\ \A k \in 1..(Len(chunks) - 1) : Len(chunks[k]) = chunk_size
        /\ Len(chunks) > 0 =>
              /\ Len(chunks[Len(chunks)]) >= 1
              /\ Len(chunks[Len(chunks)]) <= chunk_size
        /\ (Len(chunks) = 0) = (audio_files = << >>)

C1_Witness ==
    /\ entry = "files" /\ pc = "done"
    /\ Len(audio_files) = 7
    /\ chunk_size = 3
    /\ Len(chunks) = 3
    /\ Len(chunks[3]) = 1

\* C2: get_valid_audio_files returns exactly the regular files of the folder
\* whose extension, compared without regard to case, is mp3, m4a, wav or
\* m4b, in strictly ascending order of file name (so none twice).
C2_ValidSortedAudioFiles ==
    (entry = "files" /\ pc \in {"chunk_list", "done"} /\ exc = "none") =>
        /\ Range(audio_files) =
              { f \in Range(listing) :
                  /\ f.is_file
                  /\ \E e \in VALID_EXTENSIONS : Lower(Suffix(f.name)) = Lower(e) }
        /\ \A i, j \in 1..Len(audio_files) :
              i < j => StrLess(audio_files[i].name, audio_files[j].name)

C2_Witness ==
    /\ entry = "files" /\ pc = "chunk_list"
    /\ Len(audio_files) >= 2
    /\ Len(audio_files) < Len(listing)
    /\ \E f \in Range(audio_files) : Suffix(f.name) \notin VALID_EXTENSIONS
    /\ audio_files # SelectSeq(listing, IsValidAudio)

\* C4: the monitor is DONE exactly from the first tick that reports the
\* create control enabled, every earlier tick having reported it disabled;
\* it is TIMED_OUT only when no tick reported enabled and the timeout has
\* elapsed; no tick is taken once the timeout has elapsed.
C4_MonitorTransitions ==
    /\ mon = "DONE" =>
          /\ Len(ticks) >= 1
          /\ ticks[Len(ticks)].enabled
          /\ \A i \in 1..(Len(ticks) - 1) : ~ticks[i].enabled
    /\ mon = "WAITING" => \A i \in 1..Len(ticks) : ~ticks[i].enabled
    /\ mon = "TIMED_OUT" =>
          /\ \A i \in 1..Len(ticks) : ~ticks[i].enabled
          /\ elapsed >= timeout
    /\ \A i \in 1..Len(ticks) : ticks[i].at < timeout
    /\ (pc = "monitor" /\ elapsed >= timeout) =>
          /\ ENABLED MonTimeout
          /\ ~ENABLED MonTickDisabled
          /\ ~ENABLED MonTickEnabled

C4_Witness ==
    /\ mon = "DONE"
    /\ Len(ticks) >= 2
    /\ ~ticks[1].enabled

\* C5 as stated: when some record's trimmed title equals the trimmed
\* playlist name, the URL returned is the edit URL of such a record's cardId;
\* when none does, the library URL is returned with a warning.
C5_Original ==
    (entry = "monitor" /\ pc = "done" /\ created_url # NoUrl) =>
        LET cards == CardsOf(response.body)
            hits == {i \in 1..Len(cards) :
                        Strip(cards[i].title) = Strip(playlist_name)}
        IN  IF hits # {}
            THEN \E i \in hits : created_url = EditUrl(cards[i].cardId) /\ ~warned
            ELSE created_url = LibraryUrl /\ warned

\* C5, amended: the record that counts is the first one whose trimmed title
\* equals the trimmed playlist name; if it has a non-empty cardId the edit
\* URL of that cardId is returned without a warning; if no title matches, or
\* that first record has no cardId, the library URL is returned with the
\* warning.
C5_FirstMatchWithCardId ==
    (entry = "monitor" /\ pc = "done" /\ created_url # NoUrl) =>
        LET cards == CardsOf(response.body)
            hits == {i \in 1..Len(cards) :
                        Strip(cards[i].title) = Strip(playlist_name)}
            first == CHOOSE i \in hits : \A j \in hits : i <= j
        IN  IF hits # {} /\ cards[first].cardId # ""
            THEN created_url = EditUrl(cards[first].cardId) /\ ~warned
            ELSE created_url = LibraryUrl /\ warned

C5_Witness ==
    /\ entry = "monitor" /\ pc = "done"
    /\ created_url = EditUrl("123")
    /\ playlist_name = <<" ", "X">>
    /\ Len(response.body.cards) = 2
    /\ response.body.cards[2].title = <<"X">>
    /\ response.body.cards[1].title = <<"x">>

\* C3: between two resets of the used-set, no identifier (icon src) is
\* chosen for two different tracks.
C3_NoRepeatBeforeExhaustion ==
    \A a, b \in 1..Len(since_reset) :
        a # b => since_reset[a] # since_reset[b]

\* what holds in both variants: no non-empty src is chosen twice between two
\* resets of the used-set
C3_NoRecordedRepeat ==
    \A a, b \in 1..Len(since_reset) :
        (a # b /\ since_reset[a] # NoSrc) => since_reset[a] # since_reset[b]

\* the events that follow the n-th event of the trace
EventsAfter(n) == {trace[q].ev : q \in (n + 1)..Len(trace)}

\* the events of the upload stage, in the order they happened
UploadEvents ==
    SelectSeq(trace, LAMBDA e : e.ev \in {"upload_chunk", "upload_returned"})

\* C6: upload_chunk is called for batch 1, 2, ... in order, each call after
\* the previous one returned, each with the batch of that position; the
\* monitor starts only when every batch has been uploaded once and the last
\* call has returned; seven files in batches of three go up as 3, 3, 1.
C6_SequentialUploads ==
    /\ \A j \in 1..Len(UploadEvents) :
          UploadEvents[j] = IF j % 2 = 1
                            THEN Event("upload_chunk", (j + 1) \div 2)
                            ELSE Event("upload_returned", j \div 2)
    /\ Len(uploaded) = CountEvents("upload_chunk")
    /\ Len(uploaded) <= Len(chunks)
    /\ \A k \in 1..Len(uploaded) : uploaded[k] = chunks[k]
    /\ HasEvent("monitor_start") =>
          /\ Len(UploadEvents) = 2 * Len(chunks)
          /\ Flatten(uploaded) = audio_files
          /\ \A n \in 1..Len(trace) :
                trace[n].ev = "monitor_start" =>
                    EventsAfter(n) \cap {"upload_chunk", "upload_returned"} = {}
          /\ (Len(audio_files) = 7 /\ chunk_size = 3) =>
                [k \in 1..Len(uploaded) |-> Len(uploaded[k])] = <<3, 3, 1>>

C6_Witness ==
    /\ HasEvent("monitor_start")
    /\ Len(audio_files) = 7
    /\ chunk_size = 3
    /\ Len(uploaded) = 3
    /\ variant = "package"

\* C7: in headless mode, once the login wait has timed out, nothing more is
\* done on the page: no navigation, no fill, no upload, no click; the mode
\* function has returned and the only event left is the browser's close.
C7_HeadlessLoginTimeoutAborts ==
    headless =>
        \A n \in 1..Len(trace) :
            trace[n].ev = "login_timeout" =>
                /\ EventsAfter(n) \subseteq {"close"}
                /\ pc \in {"finally", "done"}
                /\ uploaded = << >>

C7_Witness ==
    /\ headless
    /\ mode = "upload"
    /\ HasEvent("login_timeout")
    /\ chunks # << >>
    /\ pc = "done"

\* C8: in visible mode, a login wait that timed out is followed by the
\* blocking prompt, and the operator's confirmation by the navigation to the
\* editor.
C8_VisibleLoginTimeoutPauses ==
    ~headless =>
        \A n \in 1..Len(trace) :
            trace[n].ev = "login_timeout" =>
                IF n = Len(trace) THEN pc = "login_prompt"
                ELSE /\ trace[n + 1].ev = "login_confirmed"
                     /\ IF n + 1 = Len(trace) THEN pc = "navigate"
                        ELSE trace[n + 2].ev \in {"goto_editor", "goto_edit_url"}

C9_PackageClosesBrowser ==
    (variant = "package" /\ pc = "done" /\ HasEvent("launch")) => browser = "closed"

\* C10 as stated: when the folder-not-found error is reported, no browser
\* action has taken place: no launch, no navigation, no login.
C10_Original ==
    HasEvent("error_folder_not_found") =>
        /\ ~HasEvent("launch")
        /\ ~HasEvent("goto_account")
        /\ ~HasEvent("click_submit")

\* C10, amended: the browser has been launched by then, but nothing was done
\* on its page, before or after the error: no navigation, no login, no
\* upload; the run ends and the launched browser is closed.
C10_NoPageActionAroundFolderError ==
    HasEvent("error_folder_not_found") =>
        /\ HasEvent("launch")
        /\ \A n \in 1..Len(trace) :
              trace[n].ev \in {"prompt_email", "prompt_password", "launch",
                               "prompt_name", "prompt_folder",
                               "error_folder_not_found", "close"}
        /\ pc \in {"finally", "done"}
        /\ pc = "done" => browser = "closed"

C10_Witness ==
    /\ HasEvent("error_folder_not_found")
    /\ ~folder_exists
    /\ pc = "done"

\* C11: when the content-listing response that follows the create click has
\* a non-success status, wait_and_create raises its API error: no URL is
\* returned (neither an edit URL nor the library URL) and no warning printed,
\* the run never prints the success message, and nothing follows the click
\* but the closing of the browser.
C11_ApiErrorFatal ==
    (response # NoResponse /\ ~response.ok /\ pc # "create_response") =>
        /\ exc = "RuntimeError"
        /\ created_url = NoUrl
        /\ ~warned
        /\ ~HasEvent("print_created")
        /\ pc \in {"finally", "done"}
        /\ \A n \in 1..Len(trace) :
              trace[n].ev = "click_create" => EventsAfter(n) \subseteq {"close"}

C11_Witness ==
    /\ entry = "run"
    /\ response # NoResponse
    /\ ~response.ok
    /\ exc = "RuntimeError"
    /\ HasEvent("click_create")
    /\ pc = "done"

\* C12: for each batch upload_chunk first tries the direct assignment to the
\* upload input; the file chooser is tried exactly when the direct assignment
\* raised, and is given the same file paths; when the fallback fails too the
\* error leaves the run: no later batch is uploaded, the monitor never starts
\* and the create control is never clicked.
C12_UploadFallback ==
    /\ pc = "upload_settle" => attempts # << >>
    /\ attempts # << >> =>
          LET n == Len(attempts)
              direct == attempts[1]
          IN  /\ direct.via = "set_input_files"
              /\ direct.k = chunk_index
              /\ direct.paths = FilePaths(folder_input, chunks[chunk_index])
              /\ direct.raised <=> n > 1
              /\ n <= 3
              /\ n >= 2 => attempts[2].via = "click_add_audio"
              /\ n = 3 => /\ attempts[3].via = "set_files"
                          /\ ~attempts[2].raised
                          /\ attempts[3].paths = direct.paths
              /\ (n = 2) => attempts[2].raised
              /\ (n > 1 /\ attempts[n].raised) =>
                    /\ exc = "PlaywrightError"
                    /\ pc \in {"finally", "done"}
                    /\ Len(uploaded) = chunk_index
                    /\ ~HasEvent("monitor_start")
                    /\ ~HasEvent("click_create")
              /\ ~attempts[n].raised =>
                    /\ pc = "upload_settle"
                    /\ upload_via = IF n = 1 THEN "direct" ELSE "chooser"

C12_Witness ==
    /\ Len(chunks) >= 2
    /\ chunk_index = 2
    /\ Len(attempts) = 3
    /\ attempts[1].raised
    /\ attempts[3].via = "set_files"
    /\ attempts[3].raised
    /\ pc = "done"

\* C13: when the processing timeout elapses, wait_and_create raises
\* TimeoutError and the run goes no further (the legacy wait_for_processing
\* reports the timeout with a warning and never clicks create); the create
\* control is clicked at most once in a run, and only after a tick that
\* observed it enabled; a run in which no tick observed it enabled never
\* clicks create and never reports a created playlist.
C13_TimeoutRaisesNoCreate ==
    /\ CountEvents("click_create") <= 1
    /\ HasEvent("click_create") =>
          /\ variant = "package"
          /\ mon = "DONE"
          /\ ticks # << >>
          /\ ticks[Len(ticks)].enabled
    /\ (\A i \in 1..Len(ticks) : ~ticks[i].enabled) =>
          /\ ~HasEvent("click_create")
          /\ ~HasEvent("print_created")
          /\ created_url = NoUrl
    /\ mon = "TIMED_OUT" =>
          /\ elapsed >= timeout
          /\ IF variant = "package"
             THEN /\ exc = "TimeoutError"
                  /\ pc \in {"finally", "done"}
                  /\ \A n \in 1..Len(trace) :
                        trace[n].ev = "monitor_start" => EventsAfter(n) \subseteq {"close"}
             ELSE HasEvent("warn_timeout")

C13_Witness ==
    /\ entry = "run"
    /\ variant = "package"
    /\ mon = "TIMED_OUT"
    /\ Len(ticks) >= 2
    /\ exc = "TimeoutError"
    /\ HasEvent("monitor_start")
    /\ pc = "done"

\* C14: when --playlist and --folder are both given, the workflow uses those
\* values and prompts for neither.
C14_OptionsSkipPrompts ==
    (opt_playlist # << >> /\ opt_folder # << >>) =>
        /\ ~HasEvent("prompt_name")
        /\ ~HasEvent("prompt_folder")
        /\ pc \in {"scan", "login"} =>
              /\ playlist_name = Strip(opt_playlist)
              /\ folder_input = CleanPath(opt_folder)

\* C16 as stated: get_credentials prompts for exactly those of the two
\* credentials whose environment variable is absent, and returns the
\* environment value of a variable that is present.
C16_Original ==
    credentials # << >> =>
        /\ [i \in 1..Len(answers) |-> answers[i].prompt] =
              (IF env_email = None THEN << "email" >> ELSE << >>)
              \o (IF env_password = None THEN << "password" >> ELSE << >>)
        /\ env_email # None => credentials[1] = env_email
        /\ env_password # None => credentials[2] = env_password

\* C16, amended: get_credentials prompts, email first, for exactly those of
\* the two credentials whose environment variable is absent or empty; a
\* variable holding a non-empty value is returned without a prompt, a
\* prompted value is returned as typed (even empty); the result is the pair
\* (email, password) in that order.
C16_PromptsForAbsentOrEmpty ==
    credentials # << >> =>
        LET no_email == env_email = None \/ env_email = ""
            no_password == env_password = None \/ env_password = ""
        IN  /\ [i \in 1..Len(answers) |-> answers[i].prompt] =
                  (IF no_email THEN << "email" >> ELSE << >>)
                  \o (IF no_password THEN << "password" >> ELSE << >>)
            /\ Len(credentials) = 2
            /\ credentials[1] = IF no_email THEN answers[1].text ELSE env_email
            /\ credentials[2] = IF no_password THEN answers[Len(answers)].text
                                ELSE env_password
            /\ CountEvents("prompt_email") = (IF no_email THEN 1 ELSE 0)
            /\ CountEvents("prompt_password") = (IF no_password THEN 1 ELSE 0)

C16_Witness ==
    /\ entry = "creds"
    /\ pc = "done"
    /\ env_email = ""
    /\ env_password = "env2"
    /\ credentials = << "typed1", "env2" >>
    /\ Len(answers) = 1

\* the step of randomize_icons that builds the candidates and draws one
IconChooseStep == pc = "icon_pick" /\ pc' = "icon_confirm"

\* C17 as stated: when the dialog exposes an icon, the set the choice is
\* drawn from is non-empty; the used-set is cleared only when every icon of
\* the dialog has an identifier recorded as used; after a clear all the
\* icons of the dialog are candidates.
C17_Original ==
    [][IconChooseStep =>
          /\ available # << >>
          /\ valid_opts' # {}
          /\ chosen' \in valid_opts'
          /\ recycled' =>
                /\ \A k \in 1..Len(available) : available[k] \in used_icon_srcs
                /\ valid_opts' = 1..Len(available)]_vars

\* C17, amended: the candidates are the icons of the dialog whose identifier
\* is not recorded as used (in the legacy script: and is not missing); the
\* used-set is cleared exactly when there is no candidate, and then every
\* icon of the dialog is drawn from; the set drawn from is never empty; with
\* no clear the used-set only grows, by the identifier chosen.
C17_ClearedWhenNoCandidate ==
    [][IconChooseStep =>
          LET cand == {k \in 1..Len(available) :
                          /\ available[k] \notin used_icon_srcs
                          /\ variant = "legacy" => available[k] # NoSrc}
              src == available[chosen']
          IN  /\ available # << >>
              /\ recycled' = (cand = {})
              /\ valid_opts' = IF cand = {} THEN 1..Len(available) ELSE cand
              /\ valid_opts' # {}
              /\ chosen' \in valid_opts'
              /\ used_icon_srcs' =
                    (IF recycled' THEN {} ELSE used_icon_srcs)
                    \cup (IF src = NoSrc THEN {} ELSE {src})]_vars

C17_Witness ==
    /\ pc = "icon_confirm"
    /\ recycled
    /\ Len(available) = 2
    /\ valid_opts = {1, 2}
    /\ available[1] # NoSrc
    /\ available[2] # available[1]
    /\ icon_i >= 1

\* the page actions randomize_icons can issue
IconPageEvents ==
    {"click_cookie", "click_trigger", "click_icon", "press_escape",
     "recover_escape", "wait_dialog_hidden"}

\* C18: in the failure recovery, the Escape key is pressed only if the icon
\* dialog is visible at that moment; otherwise (not visible, or the check
\* fails) the recovery issues no key press and no click, and the loop moves
\* to the next icon.
C18_EscapeOnlyIfVisible ==
    [][pc = "icon_recover" =>
          /\ pc' = "icon_loop"
          /\ icon_i' = icon_i + 1
          /\ IF dialog
             THEN \/ trace' = trace
                  \/ /\ Len(trace') > Len(trace)
                     /\ SubSeq(trace', 1, Len(trace)) = trace
                     /\ trace'[Len(trace) + 1] = Event("recover_escape", icon_i)
                     /\ \A n \in (Len(trace) + 2)..Len(trace') :
                           trace'[n].ev = "wait_dialog_hidden"
             ELSE trace' = trace]_vars

C18_Witness ==
    /\ Len(trace) = 3
    /\ trace[1] = Event("click_trigger", 0)
    /\ trace[2] = Event("click_trigger", 1)
    /\ trace[3].ev = "recover_escape"
    /\ pc = "icon_loop"
    /\ icon_i = 2

\* C19: a recovery that pressed Escape waits for the dialog to close before
\* the loop continues: every Escape of the recovery is followed at once by
\* the wait for the dialog of the same icon to be hidden, so no later
\* trigger is clicked before that wait.
C19_RecoveryWaitsForClose ==
    \A n \in 1..Len(trace) :
        trace[n].ev = "recover_escape" =>
            /\ n < Len(trace)
            /\ trace[n + 1] = Event("wait_dialog_hidden", trace[n].k)

\* the same of the legacy script alone, whose recovery has the wait
C19_LegacyWaitsForClose ==
    variant = "legacy" => C19_RecoveryWaitsForClose

\* C20: once the URL check at the start of an iteration has found the page
\* off the editor, the loop is over: no trigger or dialog icon is clicked, no
\* key is pressed, and the used-set, the icons assigned and the loop index no
\* longer change.
C20_AbortWhenOffEditor ==
    /\ [](~on_editor =>
            /\ pc \notin {"icon_loop", "icon_open", "icon_pick", "icon_confirm",
                           "icon_recover"}
            /\ \A n \in 1..Len(trace) :
                  trace[n].ev = "error_navigated_away" =>
                      EventsAfter(n) \cap IconPageEvents = {})
    /\ [][~on_editor =>
            UNCHANGED << used_icon_srcs, assigned, since_reset, icon_i, chosen,
                         on_editor >>]_vars

C20_Witness ==
    /\ ~on_editor
    /\ count = 2
    /\ icon_i = 1
    /\ used_icon_srcs # {}
    /\ assigned[1] # "unset"
    /\ assigned[2] = "unset"
    /\ HasEvent("error_navigated_away")
    /\ pc = "done"

\* C15: every run terminates: with time passing and the prompts answered,
\* the run reaches its end, whatever the page does; the package's run ends
\* with the browser closed.
C15_RunTerminates ==
    <>(pc = "done" /\ (variant = "package" => browser = "closed"))

C15_Witness ==
    /\ pc = "done"
    /\ variant = "package"
    /\ browser = "closed"
    /\ mon = "TIMED_OUT"
    /\ HasEvent("login_timeout") = FALSE
    /\ Len(ticks) >= 2

IconPass == {"icon_open", "icon_pick", "icon_confirm", "icon_recover"}

\* C22: a failure while one icon is handled is local: randomize_icons
\* raises nothing, a pass is begun for index i only when i < count and the
\* URL check passed, every pass (failed, recovered or not) ends with the
\* loop at index i + 1, and the loop is left only at index count or by the
\* URL check; so the indexes 0..count-1 are attempted once each, ascending.
C22_IconFailureLocal ==
    /\ [](entry = "icons" => exc = "none")
    /\ [](pc \in IconPass => icon_i < count /\ on_editor)
    /\ []((entry = "icons" /\ pc = "done" /\ on_editor) => icon_i = count)
    /\ [][ /\ (pc = "icon_loop" /\ pc' = "icon_open") => icon_i' = icon_i
           /\ (pc \in IconPass /\ pc' \in IconPass) => icon_i' = icon_i
           /\ (pc \in IconPass /\ pc' \notin IconPass) =>
                  pc' = "icon_loop" /\ icon_i' = icon_i + 1
           /\ pc = "icon_recover" => exc' = "none" ]_vars

\* the first icon's pass failed and was recovered, the second icon was
\* then given an icon
C22_Witness ==
    /\ entry = "icons"
    /\ count = 2
    /\ icon_i = 2
    /\ pc = "done"
    /\ assigned[1] = "unset"
    /\ assigned[2] \notin {"unset"}
    /\ HasEvent("recover_escape")
    /\ exc = "none"

\* C23 as stated: the loop bound follows the current number of matching
\* elements: a pass is begun only for an index below it, and the loop that
\* was not stopped by the URL check ends when the index reaches it.
C23_Original ==
    /\ pc \in IconPass => icon_i < matching
    /\ (pc = "done" /\ on_editor /\ count > 0) => icon_i = matching

\* C23, amended: the number of matching elements is read once, before the
\* first iteration, and bounds the loop whatever the page shows later; only
\* the element is resolved anew in each iteration, so a trigger is clicked
\* for index i only if an i-th element exists at that time.
C23_CountReadOnce ==
    /\ [][pc # "randomize_icons" => count' = count]_vars
    /\ [](pc \in IconPass => icon_i < count)
    /\ []((pc = "done" /\ on_editor) => icon_i = count)
    /\ [](pc = "icon_pick" => icon_i < matching)

\* one element matched before the loop, two match during it: the loop
\* ended after the first
C23_Witness ==
    /\ entry = "live"
    /\ count = 1
    /\ matching = 2
    /\ icon_i = 1
    /\ on_editor
    /\ assigned[1] = "s1"
    /\ pc = "done"

\* C24 as stated: between passes, and in the recovery of a failed pass, an
\* identifier is in the used-set only if it was assigned to a track.
C24_Original ==
    pc # "icon_confirm" =>
        \A src \in used_icon_srcs : \E t \in 1..count : assigned[t] = src

\* C24, amended: the identifier is recorded when the icon is chosen, before
\* it is clicked: the used-set holds the non-empty identifiers chosen since
\* it was last empty, whether or not their click and dialog close
\* succeeded; it changes in no other step of a pass.  A track's icon is
\* changed only by a click on a chosen icon that went through.
C24_RecordedWhenChosen ==
    /\ [](used_icon_srcs = { since_reset[n] : n \in 1..Len(since_reset) } \ {NoSrc})
    /\ [](\A t \in 1..Len(assigned) :
            assigned[t] # "unset" <=>
                \E n \in 1..Len(trace) : trace[n] = Event("click_icon", t - 1))
    /\ [][used_icon_srcs' # used_icon_srcs =>
              \/ pc = "randomize_icons"
              \/ pc = "icon_pick" /\ pc' = "icon_confirm"]_vars
    /\ [][(pc = "icon_recover" \/ pc' = "icon_recover") =>
              used_icon_srcs' = used_icon_srcs]_vars

\* the click on the chosen icon raised: the track keeps its icon and the
\* identifier is in the used-set
C24_Witness ==
    /\ entry = "icons"
    /\ count = 1
    /\ pc = "done"
    /\ icon_i = 1
    /\ assigned = << "unset" >>
    /\ used_icon_srcs = {"s1"}
    /\ ~HasEvent("click_icon")
    /\ HasEvent("click_trigger")

\* C25: the status-text scan has no effect on the monitor's transition: a
\* tick on which the create control is not enabled leaves the monitor
\* waiting with no exception whatever the page content is (an error of
\* reading it included), the same tick and the same next times are possible
\* under every page content, and the outcome is fixed by the create-control
\* states alone: DONE on the first tick that sees the control enabled,
\* TIMED_OUT when the time is up before any did.
C25_ScanHasNoEffect ==
    /\ [][\A content \in PageContents :
            MonTickDisabledWith(content) =>
                /\ pc' = "monitor"
                /\ mon' = mon
                /\ exc' = exc
                /\ ticks' = Append(ticks, [enabled |-> FALSE, at |-> elapsed])
                /\ elapsed' \in (elapsed + Poll(variant))..(elapsed + Poll(variant) + MaxDelay)]_vars
    /\ []((pc = "monitor" /\ WithinTimeout) =>
            \A content \in PageContents, delay \in 0..MaxDelay :
                ENABLED (/\ MonTickDisabledWith(content)
                         /\ pc' = "monitor"
                         /\ mon' = mon
                         /\ elapsed' = elapsed + Poll(variant) + delay))
    /\ [](mon = "DONE" <=> (ticks # << >> /\ ticks[Len(ticks)].enabled))
    /\ [](mon = "TIMED_OUT" <=>
            (pc # "monitor" /\ elapsed >= timeout
                /\ \A i \in 1..Len(ticks) : ~ticks[i].enabled))

\* the scan changed the status text on the way to a time-out
C25_Witness ==
    /\ entry = "monitor"
    /\ variant = "package"
    /\ mon = "TIMED_OUT"
    /\ Len(ticks) >= 2
    /\ status_text = "Server is transcoding/processing..."
    /\ exc = "TimeoutError"

\* the same records in the other of the two forms: a bare list for a
\* wrapper object with a cards field, and the reverse
OtherForm(data) ==
    IF data.kind = "list"
    THEN [kind |-> "object", has_cards |-> TRUE, cards |-> data.cards]
    ELSE [kind |-> "list", has_cards |-> FALSE, cards |-> data.cards]

\* C26: the URL wait_and_create returned and whether it warned are those
\* the same records give in the other form (bare list or wrapper object
\* with a cards field) for the same playlist name; a wrapper object
\* without a cards field gives what the empty bare list gives: the library
\* URL, with the warning.
C26_ListAndWrapperAgree ==
    (entry = "monitor" /\ created_url # NoUrl) =>
        LET data == response.body
            got == [url |-> created_url, warned |-> warned]
        IN  /\ (data.kind = "list" \/ data.has_cards) =>
                   /\ OtherForm(data) # data
                   /\ got = MatchResult(OtherForm(data), playlist_name)
            /\ (data.kind = "object" /\ ~data.has_cards) =>
                   /\ got = [url |-> LibraryUrl, warned |-> TRUE]
                   /\ got = MatchResult([kind |-> "list", has_cards |-> FALSE,
                                         cards |-> << >>], playlist_name)

\* a wrapper object whose record matched: the edit URL, no warning
C26_Witness ==
    /\ entry = "monitor"
    /\ pc = "done"
    /\ response.body.kind = "object"
    /\ response.body.has_cards
    /\ Len(response.body.cards) = 2
    /\ created_url # NoUrl
    /\ created_url # LibraryUrl
    /\ ~warned

\* C27: in upload mode, when the folder exists and holds no valid audio
\* file, the run reports it and ends with nothing done on the page: no
\* navigation, no credential typed or submitted, no upload, no create
\* click; so a run that is at, or past, the login step has at least one
\* file to upload, in at least one batch, and a playlist name that is
\* trimmed and not empty.
C27_NoFilesEndsBeforeLogin ==
    /\ HasEvent("no_valid_files") =>
          /\ folder_exists
          /\ audio_files = << >>
          /\ \A n \in 1..Len(trace) :
                trace[n].ev \in {"prompt_email", "prompt_password", "launch",
                                 "prompt_name", "prompt_folder",
                                 "no_valid_files", "close"}
          /\ pc \in {"finally", "done"}
          /\ exc = "none"
    /\ (InRun /\ mode = "upload" /\ (pc = "login" \/ HasEvent("goto_account"))) =>
          /\ ~HasEvent("no_valid_files")
          /\ audio_files # << >>
          /\ chunks # << >>
          /\ playlist_name # << >>
          /\ Strip(playlist_name) = playlist_name

\* a folder with entries, none of them a valid audio file
C27_Witness ==
    /\ HasEvent("no_valid_files")
    /\ listing # << >>
    /\ playlist_name # << >>
    /\ browser = "closed"
    /\ pc = "done"

====
